---- MODULE Spec2Model ----
(***************************************************************************)
(* AlarmProxy (ros_alarms/include/alarm_proxy.hpp): a flat record of six   *)
(* fields, three constructors and the conversion as_msg() to the wire      *)
(* message ros_alarms::Alarm.                                              *)
(*                                                                         *)
(* The model is a client scope that holds one AlarmProxy (proxy), the      *)
(* wire message proxy.as_msg() last returned (wire), and a second          *)
(* AlarmProxy (other) built either from that message or by the             *)
(* six-argument constructor next to a five-argument one.  made, other_by   *)
(* and op record how the values at hand were obtained, so that a property  *)
(* can speak about "the object built from these arguments" or "the object  *)
(* rebuilt from this object's message".                                    *)
(***************************************************************************)
EXTENDS Integers, Sequences, FiniteSets

VARIABLES this_node, proxy, made, wire, other, other_by, op

vars == <<this_node, proxy, made, wire, other, other_by, op>>

(* ------------------------------ values -------------------------------- *)

\* Longest std::string the model draws as an input.
MaxStrLen == 1

\* Largest value of a uint8_t.
UInt8Max == 255

\* The bytes strings are made of.
Chars == {97}

\* std::string values: byte sequences of length 0..MaxStrLen.
Strings == UNION {[1..n -> Chars] : n \in 0..MaxStrLen}

\* A default-constructed std::string.
EmptyString == <<>>

\* The uint8_t values the model draws: both ends of the range and one
\* value above 127.
UInt8 == {0, 200, UInt8Max}

\* No object / no message at hand.
Null == [null |-> TRUE]

\* The values of the wire message ros_alarms::Alarm.
Alarm ==
    [alarm_name : Strings, raised : BOOLEAN, node_name : Strings,
     problem_description : Strings, parameters : Strings, severity : UInt8]

\* The members of AlarmProxy on entry to a constructor body: no member has
\* an initializer, so each std::string is default-constructed (empty) and
\* raised and severity hold indeterminate values.
Members ==
    {[alarm_name |-> EmptyString, raised |-> b, node_name |-> EmptyString,
      problem_description |-> EmptyString, json_parameters |-> EmptyString,
      severity |-> u] : b \in BOOLEAN, u \in UInt8}

(* --------------------------- constructors ----------------------------- *)

\* What the six-argument constructor is evidently meant to do: store each
\* parameter into the member of the same name.
AlarmProxy6Stored(alarm_name, raised, node_name, problem_description, json_parameters, severity) ==
    {[alarm_name |-> alarm_name, raised |-> raised, node_name |-> node_name,
      problem_description |-> problem_description,
      json_parameters |-> json_parameters, severity |-> severity]}

\* The six-argument constructor: the objects it can leave behind.  In its
\* body every name denotes the parameter, which hides the member of the same
\* name, so each statement assigns to the parameter (its own value) and no
\* member is written: the object keeps the members it had on entry.
AlarmProxy6(alarm_name, raised, node_name, problem_description, json_parameters, severity) ==
    LET params == [alarm_name |-> alarm_name, raised |-> raised,
                   node_name |-> node_name,
                   problem_description |-> problem_description,
                   json_parameters |-> json_parameters,
                   severity |-> severity]
        body(self) ==
            LET s0 == [self |-> self, params |-> params]
                s1 == [s0 EXCEPT !.params.alarm_name = s0.params.alarm_name]
                s2 == [s1 EXCEPT !.params.raised = s1.params.raised]
                s3 == [s2 EXCEPT !.params.node_name = s2.params.node_name]
                s4 == [s3 EXCEPT !.params.problem_description =
                                      s3.params.problem_description]
                s5 == [s4 EXCEPT !.params.json_parameters =
                                      s4.params.json_parameters]
                s6 == [s5 EXCEPT !.params.severity = s5.params.severity]
            IN  s6.self
    IN  {body(self) : self \in Members}

\* The five-argument constructor: *this is copy-assigned from a temporary
\* built by the six-argument constructor with ros::this_node::getName().
AlarmProxy5(alarm_name, raised, problem_description, json_parameters, severity) ==
    {tmp : tmp \in AlarmProxy6(alarm_name, raised, this_node,
                               problem_description, json_parameters, severity)}

\* A from-message constructor that forgets the parameter payload.
AlarmProxyMsgNoParameters(msg) ==
    [alarm_name |-> msg.alarm_name, raised |-> msg.raised,
     node_name |-> msg.node_name,
     problem_description |-> msg.problem_description,
     json_parameters |-> EmptyString, severity |-> msg.severity]

\* The constructor from a wire message.
AlarmProxyMsg(msg) ==
    [alarm_name |-> msg.alarm_name, raised |-> msg.raised,
     node_name |-> msg.node_name,
     problem_description |-> msg.problem_description,
     json_parameters |-> msg.parameters, severity |-> msg.severity]

\* An as_msg() that moves its strings into the message and leaves them
\* empty in the receiver.
as_msg_self_moved(self) ==
    [self EXCEPT !.alarm_name = EmptyString, !.node_name = EmptyString,
                 !.problem_description = EmptyString,
                 !.json_parameters = EmptyString]

\* The receiver after as_msg(): the body assigns to the local message only,
\* so every member is as before.
as_msg_self(self) == self

\* An as_msg() with node_name and problem_description crossed.
as_msg_crossed(self) ==
    [alarm_name |-> self.alarm_name, raised |-> self.raised,
     node_name |-> self.problem_description,
     problem_description |-> self.node_name,
     parameters |-> self.json_parameters, severity |-> self.severity]

\* An as_msg() that keeps only the low seven bits of severity.
as_msg_truncated(self) ==
    [alarm_name |-> self.alarm_name, raised |-> self.raised,
     node_name |-> self.node_name,
     problem_description |-> self.problem_description,
     parameters |-> self.json_parameters, severity |-> self.severity % 128]

\* The message as_msg() returns.
as_msg(self) ==
    [alarm_name |-> self.alarm_name, raised |-> self.raised,
     node_name |-> self.node_name,
     problem_description |-> self.problem_description,
     parameters |-> self.json_parameters, severity |-> self.severity]

(* ------------------------------ actions ------------------------------- *)

\* Nothing is constructed yet; ros::this_node::getName() is fixed for the
\* run (it is the empty string before the node is initialised).
Init ==
    /\ this_node \in Strings
    /\ proxy = Null
    /\ made = [op |-> "none"]
    /\ wire = Null
    /\ other = Null
    /\ other_by = "none"
    /\ op = "none"

\* AlarmProxy proxy(alarm_name, raised, node_name, problem_description,
\*                  json_parameters, severity);
Ctor6(alarm_name, raised, node_name, problem_description, json_parameters, severity) ==
    /\ proxy = Null
    /\ \E self \in AlarmProxy6(alarm_name, raised, node_name,
                               problem_description, json_parameters, severity) :
            proxy' = self
    /\ made' = [op |-> "ctor6",
                args |-> [alarm_name |-> alarm_name, raised |-> raised,
                          node_name |-> node_name,
                          problem_description |-> problem_description,
                          json_parameters |-> json_parameters,
                          severity |-> severity]]
    /\ op' = "ctor6"
    /\ UNCHANGED <<this_node, wire, other, other_by>>

\* AlarmProxy proxy(alarm_name, raised, problem_description,
\*                  json_parameters, severity);
Ctor5(alarm_name, raised, problem_description, json_parameters, severity) ==
    /\ proxy = Null
    /\ \E self \in AlarmProxy5(alarm_name, raised, problem_description,
                               json_parameters, severity) :
            proxy' = self
    /\ made' = [op |-> "ctor5",
                args |-> [alarm_name |-> alarm_name, raised |-> raised,
                          problem_description |-> problem_description,
                          json_parameters |-> json_parameters,
                          severity |-> severity]]
    /\ op' = "ctor5"
    /\ UNCHANGED <<this_node, wire, other, other_by>>

\* A from-message constructor that rejects a message without an alarm name.
CtorMsgNamed(msg) ==
    /\ proxy = Null
    /\ msg.alarm_name # EmptyString
    /\ proxy' = AlarmProxyMsg(msg)
    /\ made' = [op |-> "ctor_msg", msg |-> msg]
    /\ op' = "ctor_msg"
    /\ UNCHANGED <<this_node, wire, other, other_by>>

\* AlarmProxy proxy(msg); for a message msg received from the wire.
CtorMsg(msg) ==
    /\ proxy = Null
    /\ proxy' = AlarmProxyMsg(msg)
    /\ made' = [op |-> "ctor_msg", msg |-> msg]
    /\ op' = "ctor_msg"
    /\ UNCHANGED <<this_node, wire, other, other_by>>

\* wire = proxy.as_msg();
AsMsg ==
    /\ proxy # Null
    /\ wire' = as_msg(proxy)
    /\ proxy' = as_msg_self(proxy)
    /\ op' = "as_msg"
    /\ UNCHANGED <<this_node, made, other, other_by>>

\* AlarmProxy other(wire); with the message proxy.as_msg() returned.
CtorWire ==
    /\ wire # Null
    /\ other = Null
    /\ other' = AlarmProxyMsg(wire)
    /\ other_by' = "ctor_msg"
    /\ op' = "ctor_msg"
    /\ UNCHANGED <<this_node, proxy, made, wire>>

\* AlarmProxy other(a, r, ros::this_node::getName(), d, p, s); with the
\* arguments a, r, d, p, s proxy was built from by the five-argument
\* constructor.
Ctor6Explicit ==
    /\ proxy # Null
    /\ made.op = "ctor5"
    /\ other = Null
    /\ \E self \in AlarmProxy6(made.args.alarm_name, made.args.raised,
                               this_node, made.args.problem_description,
                               made.args.json_parameters, made.args.severity) :
            other' = self
    /\ other_by' = "ctor6"
    /\ op' = "ctor6"
    /\ UNCHANGED <<this_node, proxy, made, wire>>

\* The scope ends: the objects and the message are destroyed (AlarmProxy has
\* the implicit destructor and owns nothing shared).
Destroy ==
    /\ proxy # Null
    /\ proxy' = Null
    /\ made' = [op |-> "none"]
    /\ wire' = Null
    /\ other' = Null
    /\ other_by' = "none"
    /\ op' = "destroy"
    /\ UNCHANGED this_node

Next ==
    \/ \E alarm_name \in Strings, raised \in BOOLEAN, node_name \in Strings,
          problem_description \in Strings, json_parameters \in Strings,
          severity \in UInt8 :
            Ctor6(alarm_name, raised, node_name, problem_description,
                  json_parameters, severity)
    \/ \E alarm_name \in Strings, raised \in BOOLEAN,
          problem_description \in Strings, json_parameters \in Strings,
          severity \in UInt8 :
            Ctor5(alarm_name, raised, problem_description, json_parameters,
                  severity)
    \/ \E msg \in Alarm : CtorMsg(msg)
    \/ AsMsg
    \/ CtorWire
    \/ Ctor6Explicit
    \/ Destroy

Spec == Init /\ [][Next]_vars

(* ----------------------------- properties ----------------------------- *)

\* The values an AlarmProxy can take.
AlarmProxyValues ==
    [alarm_name : Strings, raised : BOOLEAN, node_name : Strings,
     problem_description : Strings, json_parameters : Strings,
     severity : UInt8]

\* Two AlarmProxy objects agree on all six fields.
SameFields(a, b) ==
    /\ a.alarm_name = b.alarm_name
    /\ a.raised = b.raised
    /\ a.node_name = b.node_name
    /\ a.problem_description = b.problem_description
    /\ a.json_parameters = b.json_parameters
    /\ a.severity = b.severity

\* Two wire messages agree on all six fields.
SameWire(m, n) ==
    /\ m.alarm_name = n.alarm_name
    /\ m.raised = n.raised
    /\ m.node_name = n.node_name
    /\ m.problem_description = n.problem_description
    /\ m.parameters = n.parameters
    /\ m.severity = n.severity

\* C1: an object built by the six-argument constructor has exactly the six
\* supplied values as its fields.
C1_FullFormStoresArguments ==
    made.op = "ctor6" => SameFields(proxy, made.args)

\* C2: native -> wire -> native.  The object rebuilt from the message that
\* proxy.as_msg() returned equals proxy on all six fields.
C2_RoundTripNativeWireNative ==
    other_by = "ctor_msg" => SameFields(other, proxy)

\* C2 witness: an object with a non-empty name, an empty description,
\* raised and severity 255 has been converted and rebuilt.
C2_Witness ==
    /\ other_by = "ctor_msg"
    /\ proxy.alarm_name # EmptyString
    /\ proxy.problem_description = EmptyString
    /\ proxy.json_parameters # EmptyString
    /\ proxy.raised
    /\ proxy.severity = UInt8Max

\* C3: wire -> native -> wire.  An object built from a message m has each
\* field of m in the field it maps to (node_name -> node_name,
\* problem_description -> problem_description, parameters ->
\* json_parameters, the others unchanged), and its as_msg() equals m on all
\* six fields.
C3_RoundTripWireNativeWire ==
    made.op = "ctor_msg" =>
        /\ proxy.alarm_name = made.msg.alarm_name
        /\ proxy.raised = made.msg.raised
        /\ proxy.node_name = made.msg.node_name
        /\ proxy.problem_description = made.msg.problem_description
        /\ proxy.json_parameters = made.msg.parameters
        /\ proxy.severity = made.msg.severity
        /\ wire # Null => SameWire(wire, made.msg)

\* C3 witness: a message whose three free-text fields are not all alike has
\* been turned into an object and back into a message.
C3_Witness ==
    /\ made.op = "ctor_msg"
    /\ op = "as_msg"
    /\ wire # Null
    /\ made.msg.node_name # made.msg.problem_description
    /\ made.msg.parameters # made.msg.problem_description
    /\ made.msg.severity = 0

\* C4: the message w = e.as_msg() has w.node_name = e.node_name,
\* w.problem_description = e.problem_description, w.parameters =
\* e.json_parameters, and alarm_name, raised and severity as in e: raised
\* is a boolean and severity the same 8-bit value.
C4_AsMsgFieldMapping ==
    wire # Null =>
        /\ wire.node_name = proxy.node_name
        /\ wire.problem_description = proxy.problem_description
        /\ wire.parameters = proxy.json_parameters
        /\ wire.alarm_name = proxy.alarm_name
        /\ wire.raised = proxy.raised
        /\ wire.raised \in BOOLEAN
        /\ wire.severity = proxy.severity
        /\ wire.severity \in 0..UInt8Max

\* C4 witness: an object with severity 200, raised, and a reporter that
\* differs from its description has been converted.
C4_Witness ==
    /\ wire # Null
    /\ op = "as_msg"
    /\ proxy.severity = 200
    /\ proxy.raised
    /\ proxy.node_name # proxy.problem_description

\* C5: six values passed to the six-argument constructor, the object
\* converted by as_msg() and an object built again from that message: the
\* last object's fields are the six values.
C5_EndToEndScenario ==
    (made.op = "ctor6" /\ other_by = "ctor_msg") =>
        SameFields(other, made.args)

\* C6: an object built by the five-argument constructor has node_name equal
\* to ros::this_node::getName() and its other five fields equal to the
\* arguments.
C6_ImplicitReporterFields ==
    made.op = "ctor5" =>
        /\ proxy.node_name = this_node
        /\ proxy.alarm_name = made.args.alarm_name
        /\ proxy.raised = made.args.raised
        /\ proxy.problem_description = made.args.problem_description
        /\ proxy.json_parameters = made.args.json_parameters
        /\ proxy.severity = made.args.severity

\* C7: the object built by the five-argument constructor and the object
\* built by the six-argument constructor from the same arguments, with
\* ros::this_node::getName() passed as node_name, agree on all six fields.
C7_ImplicitReporterEquivalence ==
    (made.op = "ctor5" /\ other_by = "ctor6") => SameFields(proxy, other)

\* C8: a call of as_msg() leaves all six fields of its receiver (and every
\* other object) as they were.
C8_AsMsgLeavesFields ==
    [][op' = "as_msg" => (proxy' = proxy /\ other' = other)]_vars

\* C8 witness: as_msg() has been called on an object none of whose strings
\* is empty.
C8_Witness ==
    /\ op = "as_msg"
    /\ wire # Null
    /\ proxy.alarm_name # EmptyString
    /\ proxy.node_name # EmptyString
    /\ proxy.problem_description # EmptyString
    /\ proxy.json_parameters # EmptyString

\* C9: no operation rejects an input or ends in an error.  Where an object
\* can be constructed, each of the three constructors accepts every
\* argument list; as_msg() can be called on every object; an object can be
\* built from every message as_msg() returned; and what they produce is an
\* AlarmProxy, respectively a wire message.
C9_Total ==
    /\ proxy = Null =>
        /\ \A a \in Strings, r \in BOOLEAN, n \in Strings, d \in Strings,
              j \in Strings, s \in UInt8 : ENABLED Ctor6(a, r, n, d, j, s)
        /\ \A a \in Strings, r \in BOOLEAN, d \in Strings, j \in Strings,
              s \in UInt8 : ENABLED Ctor5(a, r, d, j, s)
        /\ \A msg \in Alarm : ENABLED CtorMsg(msg)
    /\ proxy # Null => (proxy \in AlarmProxyValues /\ ENABLED AsMsg)
    /\ wire # Null => wire \in Alarm
    /\ (wire # Null /\ other = Null) => ENABLED CtorWire
    /\ other # Null => other \in AlarmProxyValues

\* C9 witness: an object was built from a message with an empty alarm_name
\* and severity 0, converted, and an object built from the result.
C9_Witness ==
    /\ made.op = "ctor_msg"
    /\ made.msg.alarm_name = EmptyString
    /\ made.msg.severity = 0
    /\ wire # Null
    /\ other_by = "ctor_msg"

\* C10: the six-argument constructor writes no field.  Whatever the
\* arguments, the object it leaves has empty strings, and its raised and
\* severity are not determined by the arguments: every default-valued
\* object is a possible result of every argument list.  The five-argument
\* constructor copies such an object and so leaves the same.
C10_SelfAssignment ==
    /\ made.op \in {"ctor6", "ctor5"} => proxy \in Members
    /\ other_by = "ctor6" => other \in Members
    /\ proxy = Null =>
        \A m \in Members :
            /\ \A a \in Strings, r \in BOOLEAN, n \in Strings, d \in Strings,
                  j \in Strings, s \in UInt8 :
                    ENABLED (Ctor6(a, r, n, d, j, s) /\ proxy' = m)
            /\ \A a \in Strings, r \in BOOLEAN, d \in Strings, j \in Strings,
                  s \in UInt8 :
                    ENABLED (Ctor5(a, r, d, j, s) /\ proxy' = m)

\* C10 witness: the five-argument constructor was given a name, raised and
\* severity 200 in a process with a non-empty identity, and left an object
\* with no name, no reporter, not raised and severity 0.
C10_Witness ==
    /\ made.op = "ctor5"
    /\ made.args.alarm_name # EmptyString
    /\ made.args.raised
    /\ made.args.severity = 200
    /\ this_node # EmptyString
    /\ proxy.alarm_name = EmptyString
    /\ proxy.node_name = EmptyString
    /\ ~proxy.raised
    /\ proxy.severity = 0

====
